---- MODULE Spec2Model ----
(***************************************************************************)
(* Model of yangson's zipper navigator (yangson/instance.py) and of its    *)
(* XPath node-set (yangson/nodeset.py).                                    *)
(*                                                                         *)
(* JSON values are tagged records; Python strings are sequences of         *)
(* one-character strings so that joining, indexing and searching can be    *)
(* computed.  Every method of Instance is an operator returning a result   *)
(* record: exc = "none" with the returned Instance (or value), or the name *)
(* of the exception that leaves the method.                                *)
(*                                                                         *)
(*   Spec      one caller applying the methods of Instance by value        *)
(*   SpecPath  the same caller using goto and peek with instance           *)
(*             identifiers                                                 *)
(*   SpecHeap  two callers sharing one root Instance, over the object      *)
(*             store, to see what the methods write in place               *)
(*   SpecNodeSet  one union or comparison applied to a node-set            *)
(***************************************************************************)
EXTENDS Integers, Sequences, FiniteSets, TLC

(* ------------------------------ bounds --------------------------------- *)
MaxSteps == 3
MaxIndex == 3
MaxPathLen == 2
MaxHeapSteps == 3
MaxPathSteps == 1
MaxNodes == 2

(* ------------------------------ values --------------------------------- *)
Null == [k |-> "null"]
Bool(b) == [k |-> "bool", b |-> b]
Num(n) == [k |-> "num", n |-> n]
Str(s) == [k |-> "str", s |-> s]
Arr(a) == [k |-> "arr", a |-> a]
Obj(o) == [k |-> "obj", o |-> o]

Pair(n, v) == [x \in {n} |-> v]

(* Python's == on values: structural, except that a bool equals the number *)
(* 1 or 0.                                                                 *)
RECURSIVE PyEq(_, _)
PyEq(a, b) ==
  CASE a.k = "arr" /\ b.k = "arr" ->
         /\ Len(a.a) = Len(b.a)
         /\ \A i \in 1..Len(a.a) : PyEq(a.a[i], b.a[i])
    [] a.k = "obj" /\ b.k = "obj" ->
         /\ DOMAIN a.o = DOMAIN b.o
         /\ \A n \in DOMAIN a.o : PyEq(a.o[n], b.o[n])
    [] a.k = "bool" /\ b.k = "num" -> b.n = (IF a.b THEN 1 ELSE 0)
    [] a.k = "num" /\ b.k = "bool" -> a.n = (IF b.b THEN 1 ELSE 0)
    [] OTHER -> a = b

(* Python sequence indexing s[i]: 0 when i is out of range, else the       *)
(* 1-based position, negative i counting from the end.                     *)
PyPos(s, i) ==
  IF 0 <= i /\ i < Len(s) THEN i + 1
  ELSE IF i < 0 /\ 0 <= i + Len(s) THEN i + Len(s) + 1
  ELSE 0

(* Python slice bound: negative bounds count from the end, then clamp.     *)
PyClamp(s, i) ==
  IF i < 0 THEN (IF i + Len(s) < 0 THEN 0 ELSE i + Len(s))
  ELSE (IF i < Len(s) THEN i ELSE Len(s))
(* s[:hi] and s[lo:] *)
PySliceTo(s, hi) == SubSeq(s, 1, PyClamp(s, hi))
PySliceFrom(s, lo) == SubSeq(s, PyClamp(s, lo) + 1, Len(s))

(* list.index(v): first 1-based position whose element == v, 0 if none.    *)
PyListIndex(s, v) ==
  IF \E i \in 1..Len(s) : PyEq(s[i], v)
  THEN CHOOSE i \in 1..Len(s) :
         PyEq(s[i], v) /\ \A j \in 1..(i - 1) : ~PyEq(s[j], v)
  ELSE 0

(* str.index(t) / "t in s": first 1-based position where t occurs in s,    *)
(* 0 if it does not occur.                                                 *)
PyStrFind(s, t) ==
  LET occ == {i \in 1..(Len(s) - Len(t) + 1) : SubSeq(s, i, i + Len(t) - 1) = t}
  IN IF occ = {} THEN 0 ELSE CHOOSE i \in occ : \A j \in occ : i <= j

(* ------------------------------ results -------------------------------- *)
Ok(inst) == [exc |-> "none", inst |-> inst]
Val(v) == [exc |-> "none", val |-> v]
(* an InstanceError carries the failing Instance *)
Raise(e, inst) == [exc |-> e, inst |-> inst]
(* a built-in exception that no handler of the method catches *)
Fault(e) == [exc |-> e]

(* ------------------------------ crumbs --------------------------------- *)
MemberCrumb(name, obj) == [k |-> "member", name |-> name, object |-> obj]
EntryCrumb(before, after) == [k |-> "entry", before |-> before, after |-> after]

Instance(value, trace) == [value |-> value, trace |-> trace]

(* MemberCrumb.pointer_fragment: the name (a str);                         *)
(* EntryCrumb.pointer_fragment: len(before) (an int).                      *)
pointer_fragment(cr) ==
  IF cr.k = "member" THEN Str(cr.name) ELSE Num(Len(cr.before))

(* MemberCrumb.zip: res = object.copy(); res[name] = value.                *)
MemberCrumb_zip(cr, value) ==
  CASE cr.object.k = "obj" ->
         Val(Obj([n \in DOMAIN cr.object.o \cup {cr.name} |->
                    IF n = cr.name THEN value ELSE cr.object.o[n]]))
    [] cr.object.k = "arr" -> Fault("TypeError")
    [] OTHER -> Fault("AttributeError")

(* EntryCrumb.zip written with the two halves swapped.                     *)
EntryCrumb_zip_swapped(cr, value) == Val(Arr(cr.after \o <<value>> \o cr.before))

(* EntryCrumb.zip: before + [value] + after.                               *)
EntryCrumb_zip(cr, value) == Val(Arr(cr.before \o <<value>> \o cr.after))

zip(cr, value) ==
  IF cr.k = "member" THEN MemberCrumb_zip(cr, value)
  ELSE EntryCrumb_zip(cr, value)

(* ----------------------------- Instance -------------------------------- *)
Restrict(f, S) == [x \in S |-> f[x]]

(* Instance.crumb: trace[-1]; raises IndexError on an empty trace, which   *)
(* each caller handles (HasCrumb is the test for that case).               *)
HasCrumb(inst) == Len(inst.trace) > 0
crumb(inst) == inst.trace[Len(inst.trace)]

(* Instance._replace_crumb: trace[:-1] + [crumb].                          *)
replace_crumb(inst, cr) == PySliceTo(inst.trace, -1) \o <<cr>>

(* str.join: sep between consecutive parts.                                *)
RECURSIVE PyJoin(_, _)
PyJoin(sep, parts) ==
  IF Len(parts) = 0 THEN <<>>
  ELSE IF Len(parts) = 1 THEN parts[1]
  ELSE parts[1] \o sep \o PyJoin(sep, Tail(parts))

(* Instance.pointer: "/" + "/".join(fragments); join raises TypeError on   *)
(* a fragment that is not a str.                                           *)
pointer(inst) ==
  LET frags == [i \in 1..Len(inst.trace) |-> pointer_fragment(inst.trace[i])]
  IN IF \E i \in 1..Len(frags) : frags[i].k # "str"
     THEN Fault("TypeError")
     ELSE Val(Str(<<"/">> \o PyJoin(<<"/">>, [i \in 1..Len(frags) |-> frags[i].s])))

(* str.partition(sep): <<head, sep, tail>> around the first occurrence of  *)
(* sep, <<s, "", "">> when sep does not occur.                             *)
PyPartition(s, sep) ==
  LET i == PyStrFind(s, sep)
  IN IF i = 0 THEN <<s, <<>>, <<>>>>
     ELSE <<SubSeq(s, 1, i - 1), sep, SubSeq(s, i + Len(sep), Len(s))>>

(* Instance.namespace written so that the scan stops at the innermost      *)
(* MemberCrumb whether or not its name has a prefix.                       *)
RECURSIVE namespace_scan_innermost(_, _)
namespace_scan_innermost(trace, i) ==
  IF i = 0 THEN Val(Null)
  ELSE IF trace[i].k = "member"
       THEN IF PyPartition(trace[i].name, <<":">>)[2] # <<>>
            THEN Val(Str(PyPartition(trace[i].name, <<":">>)[1]))
            ELSE Val(Null)
       ELSE namespace_scan_innermost(trace, i - 1)

(* Instance.namespace, the loop over reversed(self.trace) from crumb i     *)
(* outwards: the first MemberCrumb whose name has a ":" returns its        *)
(* prefix; falling off the loop returns None.                              *)
RECURSIVE namespace_scan(_, _)
namespace_scan(trace, i) ==
  IF i = 0 THEN Val(Null)
  ELSE IF trace[i].k = "member" /\ PyPartition(trace[i].name, <<":">>)[2] # <<>>
       THEN Val(Str(PyPartition(trace[i].name, <<":">>)[1]))
       ELSE namespace_scan(trace, i - 1)

namespace(inst) == namespace_scan(inst.trace, Len(inst.trace))

(* Instance.update *)
update(inst, newval) == Ok(Instance(newval, inst.trace))

(* Instance.up: only IndexError (no crumb) is handled.                     *)
up(inst) ==
  IF ~HasCrumb(inst) THEN Raise("NonexistentInstance", inst)
  ELSE LET z == zip(crumb(inst), inst.value)
       IN IF z.exc # "none" THEN z
          ELSE Ok(Instance(z.val, PySliceTo(inst.trace, -1)))

(* Instance.top: while inst.trace: inst = inst.up                          *)
RECURSIVE top(_)
top(inst) ==
  IF inst.trace = <<>> THEN Ok(inst)
  ELSE LET u == up(inst)
       IN IF u.exc # "none" THEN u ELSE top(u.inst)

(* Instance.member: value.copy() is outside the try block; pop(name)       *)
(* raises TypeError on a list and KeyError on a dict without the key.      *)
member(inst, name) ==
  CASE inst.value.k = "obj" ->
         IF name \notin DOMAIN inst.value.o
         THEN Raise("NonexistentInstance", inst)
         ELSE Ok(Instance(inst.value.o[name],
                inst.trace \o <<MemberCrumb(name,
                   Obj(Restrict(inst.value.o, DOMAIN inst.value.o \ {name})))>>))
    [] inst.value.k = "arr" -> Raise("InstanceTypeError", inst)
    [] OTHER -> Fault("AttributeError")

(* Instance.new_member without the test for an existing member.            *)
new_member_unchecked(inst, name, value) ==
  IF inst.value.k \in {"null", "bool", "num"} THEN Fault("TypeError")
  ELSE Ok(Instance(value, inst.trace \o <<MemberCrumb(name, inst.value)>>))

(* "name in value" for the kinds of value that support it.                 *)
PyContains(value, name) ==
  CASE value.k = "obj" -> name \in DOMAIN value.o
    [] value.k = "arr" -> \E i \in 1..Len(value.a) : PyEq(value.a[i], Str(name))
    [] OTHER -> PyStrFind(value.s, name) # 0

(* Instance.new_member: "name in self.value" raises TypeError on None,     *)
(* bool and numbers; no check that the value is an object.                 *)
new_member(inst, name, value) ==
  IF inst.value.k \in {"null", "bool", "num"} THEN Fault("TypeError")
  ELSE IF PyContains(inst.value, name) THEN Raise("DuplicateMember", inst)
  ELSE Ok(Instance(value, inst.trace \o <<MemberCrumb(name, inst.value)>>))

(* Instance.sibling written without putting the receiver's value back     *)
(* into the object of the new crumb.                                       *)
sibling_forget(inst, name) ==
  IF ~HasCrumb(inst) THEN Raise("InstanceTypeError", inst)
  ELSE LET cr == crumb(inst) IN
    CASE cr.k = "entry" -> Fault("AttributeError")
      [] cr.k = "member" /\ cr.object.k = "obj" ->
           IF name \notin DOMAIN cr.object.o
           THEN Raise("NonexistentInstance", inst)
           ELSE Ok(Instance(cr.object.o[name],
                  replace_crumb(inst, MemberCrumb(name,
                     Obj(Restrict(cr.object.o, DOMAIN cr.object.o \ {name}))))))
      [] cr.k = "member" /\ cr.object.k = "arr" -> Fault("TypeError")
      [] OTHER -> Fault("AttributeError")

(* Instance.sibling: KeyError and IndexError are handled; the             *)
(* AttributeError of cr.object on an EntryCrumb is not.                    *)
sibling(inst, name) ==
  IF ~HasCrumb(inst) THEN Raise("InstanceTypeError", inst)
  ELSE LET cr == crumb(inst) IN
    CASE cr.k = "entry" -> Fault("AttributeError")
      [] cr.k = "member" /\ cr.object.k = "obj" ->
           IF name \notin DOMAIN cr.object.o
           THEN Raise("NonexistentInstance", inst)
           ELSE Ok(Instance(cr.object.o[name],
                  replace_crumb(inst, MemberCrumb(name,
                     Obj([n \in (DOMAIN cr.object.o \ {name}) \cup {cr.name} |->
                            IF n = cr.name THEN inst.value ELSE cr.object.o[n]])))))
      [] cr.k = "member" /\ cr.object.k = "arr" -> Fault("TypeError")
      [] OTHER -> Fault("AttributeError")

(* Instance.entry: val[index], EntryCrumb(val[:index], val[index+1:]).     *)
entry(inst, index) ==
  IF inst.value.k # "arr" THEN Raise("InstanceTypeError", inst)
  ELSE LET val == inst.value.a IN
    IF PyPos(val, index) = 0 THEN Raise("NonexistentInstance", inst)
    ELSE Ok(Instance(val[PyPos(val, index)],
           inst.trace \o <<EntryCrumb(PySliceTo(val, index),
                                      PySliceFrom(val, index + 1))>>))

(* Instance.first_entry: val[0], EntryCrumb([], val[1:]).                  *)
first_entry(inst) ==
  IF inst.value.k # "arr" THEN Raise("InstanceTypeError", inst)
  ELSE LET val == inst.value.a IN
    IF PyPos(val, 0) = 0 THEN Raise("NonexistentInstance", inst)
    ELSE Ok(Instance(val[PyPos(val, 0)],
           inst.trace \o <<EntryCrumb(<<>>, PySliceFrom(val, 1))>>))

(* Instance.last_entry: val[-1], EntryCrumb(val[:-1], []).                 *)
last_entry(inst) ==
  IF inst.value.k # "arr" THEN Raise("InstanceTypeError", inst)
  ELSE LET val == inst.value.a IN
    IF PyPos(val, -1) = 0 THEN Raise("NonexistentInstance", inst)
    ELSE Ok(Instance(val[PyPos(val, -1)],
           inst.trace \o <<EntryCrumb(PySliceTo(val, -1), <<>>)>>))

(* One pass of the inner loop "for k in keys: if en[k] != keys[k]" over   *)
(* keys, a sequence of <<name, value>> in the dict's iteration order:      *)
(* "match", "differ", or the exception en[k] raises.                       *)
RECURSIVE EntryMatch(_, _)
EntryMatch(en, keys) ==
  IF keys = <<>> THEN "match"
  ELSE IF en.k # "obj" THEN "TypeError"
  ELSE IF keys[1][1] \notin DOMAIN en.o THEN "KeyError"
  ELSE IF ~PyEq(en.o[keys[1][1]], keys[1][2]) THEN "differ"
  ELSE EntryMatch(en, Tail(keys))

(* The outer loop written with en.get(k): an entry without the key is     *)
(* passed over like one that differs.                                      *)
RECURSIVE KeyScan_get(_, _, _)
KeyScan_get(arr, keys, i) ==
  IF i > Len(arr) THEN [exc |-> "none", pos |-> 0]
  ELSE LET m == EntryMatch(arr[i], keys) IN
    CASE m = "match" -> [exc |-> "none", pos |-> i]
      [] m \in {"differ", "KeyError"} -> KeyScan_get(arr, keys, i + 1)
      [] OTHER -> [exc |-> m, pos |-> 0]

(* The outer loop over the entries from 1-based position i on: the         *)
(* position of the first match, 0 when the loop runs out, or the           *)
(* exception that ends it.                                                 *)
RECURSIVE KeyScan(_, _, _)
KeyScan(arr, keys, i) ==
  IF i > Len(arr) THEN [exc |-> "none", pos |-> 0]
  ELSE LET m == EntryMatch(arr[i], keys) IN
    CASE m = "match" -> [exc |-> "none", pos |-> i]
      [] m = "differ" -> KeyScan(arr, keys, i + 1)
      [] OTHER -> [exc |-> m, pos |-> 0]

(* Instance.look_up *)
look_up(inst, keys) ==
  IF inst.value.k # "arr" THEN Raise("InstanceTypeError", inst)
  ELSE LET sc == KeyScan(inst.value.a, keys, 1) IN
    CASE sc.exc = "KeyError" -> Raise("NonexistentInstance", inst)
      [] sc.exc = "TypeError" -> Raise("InstanceTypeError", inst)
      [] sc.pos = 0 -> Raise("NonexistentInstance", inst)
      [] OTHER -> entry(inst, sc.pos - 1)

(* Instance.next written without moving the focus into before.            *)
next_noshift(inst) ==
  IF ~HasCrumb(inst) THEN Raise("NonexistentInstance", inst)
  ELSE LET cr == crumb(inst) IN
    IF cr.k # "entry" THEN Raise("InstanceTypeError", inst)
    ELSE IF PyPos(cr.after, 0) = 0 THEN Raise("NonexistentInstance", inst)
    ELSE Ok(Instance(cr.after[PyPos(cr.after, 0)],
           replace_crumb(inst, EntryCrumb(cr.before, PySliceFrom(cr.after, 1)))))

(* Instance.next: IndexError (no crumb, or empty after) and AttributeError *)
(* (a MemberCrumb has no after) are handled.                               *)
next(inst) ==
  IF ~HasCrumb(inst) THEN Raise("NonexistentInstance", inst)
  ELSE LET cr == crumb(inst) IN
    IF cr.k # "entry" THEN Raise("InstanceTypeError", inst)
    ELSE IF PyPos(cr.after, 0) = 0 THEN Raise("NonexistentInstance", inst)
    ELSE Ok(Instance(cr.after[PyPos(cr.after, 0)],
           replace_crumb(inst, EntryCrumb(cr.before \o <<inst.value>>,
                                          PySliceFrom(cr.after, 1)))))

(* Instance.previous *)
previous(inst) ==
  IF ~HasCrumb(inst) THEN Raise("NonexistentInstance", inst)
  ELSE LET cr == crumb(inst) IN
    IF cr.k # "entry" THEN Raise("InstanceTypeError", inst)
    ELSE IF PyPos(cr.before, -1) = 0 THEN Raise("NonexistentInstance", inst)
    ELSE Ok(Instance(cr.before[PyPos(cr.before, -1)],
           replace_crumb(inst, EntryCrumb(PySliceTo(cr.before, -1),
                                          <<inst.value>> \o cr.after))))

(* Instance.insert_before written so that the new value takes the place   *)
(* of the focus instead of becoming its neighbour.                         *)
insert_before_replace(inst, value) ==
  IF ~HasCrumb(inst) THEN Raise("InstanceTypeError", inst)
  ELSE LET cr == crumb(inst) IN
    IF cr.k # "entry" THEN Raise("InstanceTypeError", inst)
    ELSE Ok(Instance(value, replace_crumb(inst, EntryCrumb(cr.before, cr.after))))

(* Instance.insert_before: AttributeError and IndexError both handled.     *)
insert_before(inst, value) ==
  IF ~HasCrumb(inst) THEN Raise("InstanceTypeError", inst)
  ELSE LET cr == crumb(inst) IN
    IF cr.k # "entry" THEN Raise("InstanceTypeError", inst)
    ELSE Ok(Instance(value,
           replace_crumb(inst, EntryCrumb(cr.before, <<inst.value>> \o cr.after))))

(* Instance.insert_after *)
insert_after(inst, value) ==
  IF ~HasCrumb(inst) THEN Raise("InstanceTypeError", inst)
  ELSE LET cr == crumb(inst) IN
    IF cr.k # "entry" THEN Raise("InstanceTypeError", inst)
    ELSE Ok(Instance(value,
           replace_crumb(inst, EntryCrumb(cr.before \o <<inst.value>>, cr.after))))

(* ----------------------------- selectors ------------------------------- *)
MemberName(name) == [k |-> "MemberName", name |-> name]
EntryIndex(index) == [k |-> "EntryIndex", index |-> index]
EntryValue(value) == [k |-> "EntryValue", value |-> value]
EntryKeys(keys) == [k |-> "EntryKeys", keys |-> keys]

(* MemberName.peek_step: obj.get(name); None is the JSON null.             *)
MemberName_peek_step(sel, obj) ==
  IF obj.k # "obj" THEN Fault("AttributeError")
  ELSE IF sel.name \in DOMAIN obj.o THEN Val(obj.o[sel.name])
  ELSE Val(Null)

(* EntryIndex.peek_step: arr[index], only IndexError handled.  A str is    *)
(* indexable too and gives a one-character str.                            *)
EntryIndex_peek_step(sel, arr) ==
  CASE arr.k = "arr" ->
         IF PyPos(arr.a, sel.index) = 0 THEN Val(Null)
         ELSE Val(arr.a[PyPos(arr.a, sel.index)])
    [] arr.k = "str" ->
         IF PyPos(arr.s, sel.index) = 0 THEN Val(Null)
         ELSE Val(Str(<<arr.s[PyPos(arr.s, sel.index)]>>))
    [] arr.k = "obj" -> Fault("KeyError")
    [] OTHER -> Fault("TypeError")

(* EntryValue.peek_step: arr[arr.index(value)], only ValueError handled.   *)
EntryValue_peek_step(sel, arr) ==
  CASE arr.k = "arr" ->
         IF PyListIndex(arr.a, sel.value) = 0 THEN Val(Null)
         ELSE Val(arr.a[PyListIndex(arr.a, sel.value)])
    [] arr.k = "str" ->
         IF sel.value.k # "str" THEN Fault("TypeError")
         ELSE IF PyStrFind(arr.s, sel.value.s) = 0 THEN Val(Null)
         ELSE IF PyStrFind(arr.s, sel.value.s) > Len(arr.s) THEN Fault("IndexError")
         ELSE Val(Str(<<arr.s[PyStrFind(arr.s, sel.value.s)]>>))
    [] OTHER -> Fault("AttributeError")

(* What "for en in arr" iterates over: the entries of a list, the          *)
(* characters of a str, the keys of a dict (the model keeps no key order:  *)
(* some enumeration of them).                                              *)
RECURSIVE SetToSeq(_)
SetToSeq(S) ==
  IF S = {} THEN <<>>
  ELSE LET x == CHOOSE y \in S : TRUE IN <<x>> \o SetToSeq(S \ {x})
PyIter(v) ==
  CASE v.k = "arr" -> v.a
    [] v.k = "str" -> [i \in 1..Len(v.s) |-> Str(<<v.s[i]>>)]
    [] OTHER -> [i \in 1..Cardinality(DOMAIN v.o) |-> Str(SetToSeq(DOMAIN v.o)[i])]

(* EntryKeys.peek_step: the scan of look_up with no exception handled;     *)
(* falls off the end returning None.                                       *)
EntryKeys_peek_step(sel, arr) ==
  IF arr.k \in {"null", "bool", "num"} THEN Fault("TypeError")
  ELSE LET it == PyIter(arr)
           sc == KeyScan(it, sel.keys, 1) IN
    IF sc.exc # "none" THEN Fault(sc.exc)
    ELSE IF sc.pos = 0 THEN Val(Null)
    ELSE Val(it[sc.pos])

peek_step(sel, val) ==
  CASE sel.k = "MemberName" -> MemberName_peek_step(sel, val)
    [] sel.k = "EntryIndex" -> EntryIndex_peek_step(sel, val)
    [] sel.k = "EntryValue" -> EntryValue_peek_step(sel, val)
    [] OTHER -> EntryKeys_peek_step(sel, val)

(* EntryValue.goto_step: inst.entry(inst.value.index(value)), only         *)
(* ValueError handled.                                                     *)
EntryValue_goto_step(sel, inst) ==
  CASE inst.value.k = "arr" ->
         IF PyListIndex(inst.value.a, sel.value) = 0
         THEN Raise("NonexistentInstance", inst)
         ELSE entry(inst, PyListIndex(inst.value.a, sel.value) - 1)
    [] inst.value.k = "str" ->
         IF sel.value.k # "str" THEN Fault("TypeError")
         ELSE IF PyStrFind(inst.value.s, sel.value.s) = 0
         THEN Raise("NonexistentInstance", inst)
         ELSE entry(inst, PyStrFind(inst.value.s, sel.value.s) - 1)
    [] OTHER -> Fault("AttributeError")

goto_step(sel, inst) ==
  CASE sel.k = "MemberName" -> member(inst, sel.name)
    [] sel.k = "EntryIndex" -> entry(inst, sel.index)
    [] sel.k = "EntryValue" -> EntryValue_goto_step(sel, inst)
    [] OTHER -> look_up(inst, sel.keys)

(* Instance.goto: fold of goto_step, the first exception propagates.       *)
RECURSIVE goto(_, _)
goto(inst, ii) ==
  IF ii = <<>> THEN Ok(inst)
  ELSE LET r == goto_step(ii[1], inst)
       IN IF r.exc # "none" THEN r ELSE goto(r.inst, Tail(ii))

(* Instance.peek: fold of peek_step over self.value.                       *)
RECURSIVE PeekFold(_, _)
PeekFold(val, ii) ==
  IF ii = <<>> THEN Val(val)
  ELSE LET r == peek_step(ii[1], val)
       IN IF r.exc # "none" THEN r ELSE PeekFold(r.val, Tail(ii))
peek(inst, ii) == PeekFold(inst.value, ii)

(* ------------------------------ inputs --------------------------------- *)
QA == <<"a">>
QB == <<"b">>
QPC == <<"p", ":", "c">>
Names == {QA, QB, QPC}

Obj2(n1, v1, n2, v2) == Obj([x \in {n1, n2} |-> IF x = n1 THEN v1 ELSE v2])

(* The documents a collaborator hands to Instance(value).                  *)
Roots ==
  { Obj(Pair(QA, Arr(<<Num(10), Num(20), Num(30)>>))),
    Obj2(QA, Obj2(QA, Num(1), QPC, Bool(TRUE)), QB, Null),
    Arr(<<Obj(Pair(QA, Num(1))), Obj2(QA, Num(2), QB, Num(3)),
          Obj2(QA, Num(2), QB, Num(3))>>),
    Arr(<<Obj(Pair(QB, Num(3))), Obj2(QA, Num(2), QB, Num(3))>>),
    Arr(<<Num(5), Obj(Pair(QA, Num(1)))>>),
    Arr(<<Obj(Pair(QA, Bool(TRUE))), Num(5)>>),
    Arr(<<Arr(<<Num(1), Str(QB)>>), Str(QA)>>),
    Arr(<<>>), Obj(<<>>), Str(<<"a", "b">>), Str(<<>>),
    Null, Bool(TRUE), Num(1) }

(* Values passed to update, new_member, insert_before and insert_after.    *)
ArgVals == { Num(7), Obj(Pair(QA, Num(1))) }

Indexes == (0 - MaxIndex - 1)..(MaxIndex + 1)

(* The keys argument of look_up, in dict iteration order.                  *)
KeySets ==
  { <<>>, << <<QA, Num(1)>> >>,
    << <<QA, Num(2)>>, <<QB, Num(3)>> >>,
    << <<QB, Num(3)>>, <<QA, Num(2)>> >> }

(* The selectors instance identifiers are built from.                      *)
Selectors ==
  { MemberName(QA), MemberName(QB), EntryIndex(0),
    EntryValue(Num(5)), EntryKeys(<< <<QA, Num(1)>> >>) }

RECURSIVE SeqsUpTo(_, _)
SeqsUpTo(S, n) ==
  IF n = 0 THEN {<<>>}
  ELSE LET shorter == SeqsUpTo(S, n - 1)
       IN shorter \cup {Append(p, x) : p \in shorter, x \in S}

Paths == SeqsUpTo(Selectors, MaxPathLen)

(* ------------------------------- state --------------------------------- *)
VARIABLES
  root,    \* the value the root Instance was created with
  inst,    \* the Instance the caller holds
  prev,    \* the receiver of the last operation
  op,      \* the last operation and its arguments
  res,     \* its result: Ok, Val, Raise or Fault
  steps,   \* number of Instances derived so far
  pure,    \* only navigation (no update, new_member, insert, negative
           \* or out-of-range entry) has produced inst
  heap,    \* the object store
  hprev,   \* the object store before the last operation
  hinst,   \* per caller, the address of the Instance it holds
  solo,    \* per caller, the Instance its own operations compute by value
  sres,    \* the result by value of the last operation
  nset     \* the node-set a comparison or union is called on

vars == <<root, inst, prev, op, res, steps, pure, heap, hprev, hinst, solo, sres,
          nset>>

IsInst(r) == r.exc = "none" /\ "inst" \in DOMAIN r

Init ==
  /\ root \in Roots
  /\ inst = Instance(root, <<>>)
  /\ prev = inst
  /\ op = [name |-> "init"]
  /\ res = Ok(inst)
  /\ steps = 0
  /\ pure = TRUE
  /\ heap = <<>> /\ hprev = <<>> /\ hinst = <<>> /\ solo = <<>>
  /\ sres = res
  /\ nset = <<>>

(* The caller invokes operation o on inst; r is what the method does.  A   *)
(* returned Instance becomes the one the caller holds; after an exception  *)
(* (or a plain value) the caller still holds the receiver.                 *)
Apply(o, r, nav) ==
  /\ IsInst(r) => steps < MaxSteps
  /\ prev' = inst
  /\ op' = o
  /\ res' = r
  /\ inst' = IF IsInst(r) THEN r.inst ELSE inst
  /\ steps' = IF IsInst(r) THEN steps + 1 ELSE steps
  /\ pure' = IF IsInst(r) THEN pure /\ nav ELSE pure
  /\ root' = root
  /\ UNCHANGED <<heap, hprev, hinst, solo, sres, nset>>

Member ==
  \E name \in Names :
    Apply([name |-> "member", arg |-> name], member(inst, name), TRUE)

NewMember ==
  \E name \in Names, value \in ArgVals :
    Apply([name |-> "new_member", arg |-> name, value |-> value],
          new_member(inst, name, value), FALSE)

Sibling ==
  \E name \in Names :
    Apply([name |-> "sibling", arg |-> name], sibling(inst, name), TRUE)

Entry ==
  \E index \in Indexes :
    Apply([name |-> "entry", index |-> index], entry(inst, index), index >= 0)

FirstEntry == Apply([name |-> "first_entry"], first_entry(inst), TRUE)

LastEntry == Apply([name |-> "last_entry"], last_entry(inst), TRUE)

LookUp ==
  \E keys \in KeySets :
    Apply([name |-> "look_up", keys |-> keys], look_up(inst, keys), TRUE)

NextEntry == Apply([name |-> "next"], next(inst), TRUE)

PreviousEntry == Apply([name |-> "previous"], previous(inst), TRUE)

InsertBefore ==
  \E value \in ArgVals :
    Apply([name |-> "insert_before", value |-> value],
          insert_before(inst, value), FALSE)

InsertAfter ==
  \E value \in ArgVals :
    Apply([name |-> "insert_after", value |-> value],
          insert_after(inst, value), FALSE)

Update ==
  \E value \in ArgVals :
    Apply([name |-> "update", value |-> value], update(inst, value), FALSE)

Up == Apply([name |-> "up"], up(inst), TRUE)

Top == Apply([name |-> "top"], top(inst), TRUE)

Pointer == Apply([name |-> "pointer"], pointer(inst), TRUE)

Namespace == Apply([name |-> "namespace"], namespace(inst), TRUE)

Next ==
  \/ Member \/ NewMember \/ Sibling
  \/ Entry \/ FirstEntry \/ LastEntry \/ LookUp
  \/ NextEntry \/ PreviousEntry \/ InsertBefore \/ InsertAfter
  \/ Update \/ Up \/ Top \/ Pointer \/ Namespace

Spec == Init /\ [][Next]_vars

TypeOK ==
  /\ steps \in 0..MaxSteps
  /\ res.exc \in {"none", "InstanceTypeError", "NonexistentInstance",
                  "DuplicateMember", "AttributeError", "TypeError",
                  "KeyError", "IndexError"}

Goto ==
  \E ii \in Paths :
    Apply([name |-> "goto", ii |-> ii], goto(inst, ii), FALSE)

Peek ==
  \E ii \in Paths :
    Apply([name |-> "peek", ii |-> ii], peek(inst, ii), TRUE)

(* Callers that address descendants through instance identifiers, from    *)
(* receivers at most MaxPathSteps derivations away from the root.          *)
NearRoot == steps' <= MaxPathSteps

NextPath ==
  \/ Member /\ NearRoot
  \/ Entry /\ NearRoot
  \/ LookUp /\ NearRoot
  \/ Up /\ NearRoot
  \/ Goto /\ NearRoot
  \/ Peek /\ NearRoot

SpecPath == Init /\ [][NextPath]_vars

(* ------------------------- object identity ----------------------------- *)
(* The same methods over Python's object store, for what they write in     *)
(* place.  A dict, a list (an array, the before/after of a crumb, a trace) *)
(* and an Instance are cells of a store h, a sequence indexed by address;  *)
(* None, bools, numbers and strs are immutable and stand for themselves.   *)
(* A method returns the store it leaves, the exception and the returned    *)
(* address or value.                                                       *)
Ref(at) == [k |-> "ref", at |-> at]
InstCell(value, trace) == [k |-> "inst", value |-> value, trace |-> trace]
HRet(h, ret) == [h |-> h, exc |-> "none", ret |-> ret]
HExc(h, e) == [h |-> h, exc |-> e, ret |-> 0]

(* the address the next allocation gets *)
Fresh(h) == Len(h) + 1

(* The value a reference denotes.                                          *)
RECURSIVE Deref(_, _)
Deref(h, v) ==
  IF v.k # "ref" THEN v
  ELSE IF h[v.at].k = "obj"
       THEN Obj([n \in DOMAIN h[v.at].o |-> Deref(h, h[v.at].o[n])])
       ELSE Arr([i \in 1..Len(h[v.at].a) |-> Deref(h, h[v.at].a[i])])

DerefCrumb(h, cr) ==
  IF cr.k = "member" THEN MemberCrumb(cr.name, Deref(h, cr.object))
  ELSE EntryCrumb(Deref(h, cr.before).a, Deref(h, cr.after).a)

DerefInst(h, self) ==
  Instance(Deref(h, h[self].value),
           [i \in 1..Len(h[h[self].trace.at].a) |->
              DerefCrumb(h, h[h[self].trace.at].a[i])])

(* self.trace as a sequence of crumbs *)
HTrace(h, self) == h[h[self].trace.at].a

(* self.__class__(value, <new list tr>) *)
HNewInstance(h, value, tr) ==
  HRet(h \o <<Arr(tr), InstCell(value, Ref(Fresh(h)))>>, Fresh(h) + 1)

(* Instance.update: the new Instance shares the receiver's trace list.     *)
h_update(h, self, newval) ==
  HRet(Append(h, InstCell(newval, h[self].trace)), Fresh(h))

(* MemberCrumb.zip: res = self.object.copy(); res[self.name] = value.      *)
h_MemberCrumb_zip(h, cr, value) ==
  IF cr.object.k # "ref" THEN HExc(h, "AttributeError")
  ELSE IF h[cr.object.at].k = "arr" THEN HExc(Append(h, h[cr.object.at]), "TypeError")
  ELSE HRet(Append(h, Obj([n \in DOMAIN h[cr.object.at].o \cup {cr.name} |->
                            IF n = cr.name THEN value ELSE h[cr.object.at].o[n]])),
            Ref(Fresh(h)))

(* EntryCrumb.zip: a new list before + [value] + after.                    *)
h_EntryCrumb_zip(h, cr, value) ==
  HRet(Append(h, Arr(h[cr.before.at].a \o <<value>> \o h[cr.after.at].a)),
       Ref(Fresh(h)))

h_zip(h, cr, value) ==
  IF cr.k = "member" THEN h_MemberCrumb_zip(h, cr, value)
  ELSE h_EntryCrumb_zip(h, cr, value)

(* Instance.up *)
h_up(h, self) ==
  IF HTrace(h, self) = <<>> THEN HExc(h, "NonexistentInstance")
  ELSE LET tr == HTrace(h, self)
           z == h_zip(h, tr[Len(tr)], h[self].value)
       IN IF z.exc # "none" THEN z
          ELSE HNewInstance(z.h, z.ret, PySliceTo(tr, -1))

(* Instance.top *)
RECURSIVE h_top(_, _)
h_top(h, self) ==
  IF HTrace(h, self) = <<>> THEN HRet(h, self)
  ELSE LET u == h_up(h, self)
       IN IF u.exc # "none" THEN u ELSE h_top(u.h, u.ret)

(* Instance.member written without the copy: obj = self.value.             *)
h_member_nocopy(h, self, name) ==
  LET v == h[self].value IN
  IF v.k # "ref" THEN HExc(h, "AttributeError")
  ELSE IF h[v.at].k = "arr" THEN HExc(h, "InstanceTypeError")
  ELSE IF name \notin DOMAIN h[v.at].o THEN HExc(h, "NonexistentInstance")
  ELSE HNewInstance(
         [h EXCEPT ![v.at] = Obj(Restrict(h[v.at].o, DOMAIN h[v.at].o \ {name}))],
         h[v.at].o[name],
         HTrace(h, self) \o <<MemberCrumb(name, v)>>)

(* Instance.member: obj = self.value.copy(); obj.pop(name) writes the copy *)
(* at address Fresh(h).                                                    *)
h_member(h, self, name) ==
  LET v == h[self].value IN
  IF v.k # "ref" THEN HExc(h, "AttributeError")
  ELSE IF h[v.at].k = "arr" THEN HExc(Append(h, h[v.at]), "InstanceTypeError")
  ELSE IF name \notin DOMAIN h[v.at].o
       THEN HExc(Append(h, h[v.at]), "NonexistentInstance")
  ELSE HNewInstance(
         Append(h, Obj(Restrict(h[v.at].o, DOMAIN h[v.at].o \ {name}))),
         h[v.at].o[name],
         HTrace(h, self) \o <<MemberCrumb(name, Ref(Fresh(h)))>>)

(* Instance.new_member: the crumb keeps self.value itself, not a copy.     *)
h_new_member(h, self, name, value) ==
  LET v == h[self].value IN
  IF v.k \in {"null", "bool", "num"} THEN HExc(h, "TypeError")
  ELSE IF PyContains(Deref(h, v), name) THEN HExc(h, "DuplicateMember")
  ELSE HNewInstance(h, value, HTrace(h, self) \o <<MemberCrumb(name, v)>>)

(* Instance.sibling: obj = cr.object.copy(); pop and store write the copy. *)
h_sibling(h, self, name) ==
  LET tr == HTrace(h, self) IN
  IF tr = <<>> THEN HExc(h, "InstanceTypeError")
  ELSE LET cr == tr[Len(tr)] IN
    IF cr.k = "entry" THEN HExc(h, "AttributeError")
    ELSE IF cr.object.k # "ref" THEN HExc(h, "AttributeError")
    ELSE IF h[cr.object.at].k = "arr" THEN HExc(Append(h, h[cr.object.at]), "TypeError")
    ELSE IF name \notin DOMAIN h[cr.object.at].o
         THEN HExc(Append(h, h[cr.object.at]), "NonexistentInstance")
    ELSE HNewInstance(
           Append(h, Obj([n \in (DOMAIN h[cr.object.at].o \ {name}) \cup {cr.name} |->
                           IF n = cr.name THEN h[self].value
                           ELSE h[cr.object.at].o[n]])),
           h[cr.object.at].o[name],
           PySliceTo(tr, -1) \o <<MemberCrumb(name, Ref(Fresh(h)))>>)

(* Is the focus of self a list, and its entries.                          *)
HIsList(h, self) == h[self].value.k = "ref" /\ h[h[self].value.at].k = "arr"
HList(h, self) == h[h[self].value.at].a

(* self.__class__(value, self.trace + [EntryCrumb(before, after)]) with    *)
(* before and after two new lists.                                         *)
HPushEntry(h, self, value, before, after) ==
  HNewInstance(h \o <<Arr(before), Arr(after)>>, value,
               HTrace(h, self) \o <<EntryCrumb(Ref(Fresh(h)), Ref(Fresh(h) + 1))>>)

(* the same with the last crumb replaced: self._replace_crumb(...)         *)
HReplaceEntry(h, self, value, before, after) ==
  HNewInstance(h \o <<Arr(before), Arr(after)>>, value,
               PySliceTo(HTrace(h, self), -1)
                 \o <<EntryCrumb(Ref(Fresh(h)), Ref(Fresh(h) + 1))>>)

(* Instance.entry: the slices are new lists.                               *)
h_entry(h, self, index) ==
  IF ~HIsList(h, self) THEN HExc(h, "InstanceTypeError")
  ELSE LET val == HList(h, self) IN
    IF PyPos(val, index) = 0 THEN HExc(h, "NonexistentInstance")
    ELSE HPushEntry(h, self, val[PyPos(val, index)],
                    PySliceTo(val, index), PySliceFrom(val, index + 1))

(* Instance.first_entry *)
h_first_entry(h, self) ==
  IF ~HIsList(h, self) THEN HExc(h, "InstanceTypeError")
  ELSE LET val == HList(h, self) IN
    IF PyPos(val, 0) = 0 THEN HExc(h, "NonexistentInstance")
    ELSE HPushEntry(h, self, val[PyPos(val, 0)], <<>>, PySliceFrom(val, 1))

(* Instance.last_entry *)
h_last_entry(h, self) ==
  IF ~HIsList(h, self) THEN HExc(h, "InstanceTypeError")
  ELSE LET val == HList(h, self) IN
    IF PyPos(val, -1) = 0 THEN HExc(h, "NonexistentInstance")
    ELSE HPushEntry(h, self, val[PyPos(val, -1)], PySliceTo(val, -1), <<>>)

(* Instance.look_up: the scan only reads; then self.entry(i).              *)
h_look_up(h, self, keys) ==
  IF ~HIsList(h, self) THEN HExc(h, "InstanceTypeError")
  ELSE LET sc == KeyScan(Deref(h, h[self].value).a, keys, 1) IN
    CASE sc.exc = "KeyError" -> HExc(h, "NonexistentInstance")
      [] sc.exc = "TypeError" -> HExc(h, "InstanceTypeError")
      [] sc.pos = 0 -> HExc(h, "NonexistentInstance")
      [] OTHER -> h_entry(h, self, sc.pos - 1)

(* Instance.next: before + [value] and after[1:] are new lists.            *)
h_next(h, self) ==
  LET tr == HTrace(h, self) IN
  IF tr = <<>> THEN HExc(h, "NonexistentInstance")
  ELSE LET cr == tr[Len(tr)] IN
    IF cr.k # "entry" THEN HExc(h, "InstanceTypeError")
    ELSE IF h[cr.after.at].a = <<>> THEN HExc(h, "NonexistentInstance")
    ELSE HReplaceEntry(h, self, h[cr.after.at].a[1],
                       h[cr.before.at].a \o <<h[self].value>>,
                       PySliceFrom(h[cr.after.at].a, 1))

(* Instance.previous *)
h_previous(h, self) ==
  LET tr == HTrace(h, self) IN
  IF tr = <<>> THEN HExc(h, "NonexistentInstance")
  ELSE LET cr == tr[Len(tr)] IN
    IF cr.k # "entry" THEN HExc(h, "InstanceTypeError")
    ELSE IF h[cr.before.at].a = <<>> THEN HExc(h, "NonexistentInstance")
    ELSE HReplaceEntry(h, self, h[cr.before.at].a[Len(h[cr.before.at].a)],
                       PySliceTo(h[cr.before.at].a, -1),
                       <<h[self].value>> \o h[cr.after.at].a)

(* Instance.insert_before: the new crumb shares cr.before; its after is a  *)
(* new list [self.value] + cr.after.                                       *)
h_insert_before(h, self, value) ==
  LET tr == HTrace(h, self) IN
  IF tr = <<>> THEN HExc(h, "InstanceTypeError")
  ELSE LET cr == tr[Len(tr)] IN
    IF cr.k # "entry" THEN HExc(h, "InstanceTypeError")
    ELSE HNewInstance(Append(h, Arr(<<h[self].value>> \o h[cr.after.at].a)), value,
                      PySliceTo(tr, -1) \o <<EntryCrumb(cr.before, Ref(Fresh(h)))>>)

(* Instance.insert_after: shares cr.after; before is a new list.           *)
h_insert_after(h, self, value) ==
  LET tr == HTrace(h, self) IN
  IF tr = <<>> THEN HExc(h, "InstanceTypeError")
  ELSE LET cr == tr[Len(tr)] IN
    IF cr.k # "entry" THEN HExc(h, "InstanceTypeError")
    ELSE HNewInstance(Append(h, Arr(h[cr.before.at].a \o <<h[self].value>>)), value,
                      PySliceTo(tr, -1) \o <<EntryCrumb(Ref(Fresh(h)), cr.after)>>)

(* EntryValue.goto_step: value.index(...) only reads.                      *)
h_EntryValue_goto_step(h, sel, self) ==
  LET v == Deref(h, h[self].value) IN
  CASE v.k = "arr" ->
         IF PyListIndex(v.a, sel.value) = 0 THEN HExc(h, "NonexistentInstance")
         ELSE h_entry(h, self, PyListIndex(v.a, sel.value) - 1)
    [] v.k = "str" ->
         IF sel.value.k # "str" THEN HExc(h, "TypeError")
         ELSE IF PyStrFind(v.s, sel.value.s) = 0 THEN HExc(h, "NonexistentInstance")
         ELSE h_entry(h, self, PyStrFind(v.s, sel.value.s) - 1)
    [] OTHER -> HExc(h, "AttributeError")

h_goto_step(h, sel, self) ==
  CASE sel.k = "MemberName" -> h_member(h, self, sel.name)
    [] sel.k = "EntryIndex" -> h_entry(h, self, sel.index)
    [] sel.k = "EntryValue" -> h_EntryValue_goto_step(h, sel, self)
    [] OTHER -> h_look_up(h, self, sel.keys)

(* Instance.goto *)
RECURSIVE h_goto(_, _, _)
h_goto(h, self, ii) ==
  IF ii = <<>> THEN HRet(h, self)
  ELSE LET r == h_goto_step(h, ii[1], self)
       IN IF r.exc # "none" THEN r ELSE h_goto(r.h, r.ret, Tail(ii))

(* Instance.peek: get, indexing, index() and iteration only read; the      *)
(* result is the value they reach.                                         *)
h_peek(h, self, ii) ==
  LET r == PeekFold(Deref(h, h[self].value), ii)
  IN IF r.exc # "none" THEN HExc(h, r.exc) ELSE HRet(h, r.val)

(* ----------------- callers sharing one root Instance ------------------- *)
Callers == {1, 2}

HeapRoots ==
  { Obj(Pair(QA, Arr(<<Num(10), Num(20), Num(30)>>))),
    Obj2(QA, Obj2(QA, Num(1), QPC, Bool(TRUE)), QB, Null),
    Arr(<<Obj(Pair(QA, Num(1))), Obj2(QA, Num(2), QB, Num(3))>>),
    Arr(<<>>), Str(<<"a", "b">>) }
HeapNames == {QA, QB}
HeapPaths == { <<MemberName(QA), EntryIndex(0)>>, <<EntryKeys(<< <<QA, Num(1)>> >>)>>,
               <<MemberName(QB), MemberName(QA)>> }

(* Building a value in the store: every list and dict gets its own cell.   *)
RECURSIVE Load(_, _)
RECURSIVE LoadSeq(_, _)
Load(h, v) ==
  CASE v.k = "arr" ->
         LET r == LoadSeq(h, v.a)
         IN [h |-> Append(r.h, Arr(r.s)), v |-> Ref(Fresh(r.h))]
    [] v.k = "obj" ->
         LET names == SetToSeq(DOMAIN v.o)
             r == LoadSeq(h, [i \in 1..Len(names) |-> v.o[names[i]]])
         IN [h |-> Append(r.h, Obj([n \in DOMAIN v.o |->
                                     r.s[CHOOSE i \in 1..Len(names) : names[i] = n]])),
             v |-> Ref(Fresh(r.h))]
    [] OTHER -> [h |-> h, v |-> v]
LoadSeq(h, s) ==
  IF s = <<>> THEN [h |-> h, s |-> <<>>]
  ELSE LET a == Load(h, s[1])
           b == LoadSeq(a.h, Tail(s))
       IN [h |-> b.h, s |-> <<a.v>> \o b.s]

(* Instance(value): the document, the (default) empty trace list and the   *)
(* Instance itself; both callers hold that one Instance.                   *)
InitHeap ==
  /\ root \in HeapRoots
  /\ inst = Instance(root, <<>>) /\ prev = inst /\ pure = TRUE
  /\ op = [name |-> "init", t |-> 0]
  /\ steps = 0
  /\ heap = HNewInstance(Load(<<>>, root).h, Load(<<>>, root).v, <<>>).h
  /\ hprev = heap
  /\ hinst = [t \in Callers |-> Len(heap)]
  /\ solo = [t \in Callers |-> Instance(root, <<>>)]
  /\ res = [exc |-> "none", ret |-> Len(heap)]
  /\ sres = Ok(Instance(root, <<>>))
  /\ nset = <<>>

(* Caller t invokes o on the Instance it holds: r is what the method does  *)
(* in the store, sr what it computes by value on the caller's own          *)
(* derivation.                                                             *)
HApply(t, o, r, sr, returnsInstance) ==
  /\ steps < MaxHeapSteps
  /\ steps' = steps + 1
  /\ hprev' = heap
  /\ heap' = r.h
  /\ op' = o
  /\ res' = [exc |-> r.exc, ret |-> r.ret]
  /\ sres' = sr
  /\ hinst' = IF r.exc = "none" /\ returnsInstance
              THEN [hinst EXCEPT ![t] = r.ret] ELSE hinst
  /\ solo' = IF IsInst(sr) THEN [solo EXCEPT ![t] = sr.inst] ELSE solo
  /\ UNCHANGED <<root, inst, prev, pure, nset>>

HMember ==
  \E t \in Callers, name \in HeapNames :
    HApply(t, [name |-> "member", t |-> t, arg |-> name],
           h_member(heap, hinst[t], name), member(solo[t], name), TRUE)

HNewMember ==
  \E t \in Callers, name \in HeapNames, value \in ArgVals :
    HApply(t, [name |-> "new_member", t |-> t, arg |-> name, value |-> value],
           h_new_member(Load(heap, value).h, hinst[t], name, Load(heap, value).v),
           new_member(solo[t], name, value), TRUE)

HSibling ==
  \E t \in Callers, name \in HeapNames :
    HApply(t, [name |-> "sibling", t |-> t, arg |-> name],
           h_sibling(heap, hinst[t], name), sibling(solo[t], name), TRUE)

HEntry ==
  \E t \in Callers, index \in {0, 1, -1} :
    HApply(t, [name |-> "entry", t |-> t, index |-> index],
           h_entry(heap, hinst[t], index), entry(solo[t], index), TRUE)

HFirstEntry ==
  \E t \in Callers :
    HApply(t, [name |-> "first_entry", t |-> t],
           h_first_entry(heap, hinst[t]), first_entry(solo[t]), TRUE)

HLastEntry ==
  \E t \in Callers :
    HApply(t, [name |-> "last_entry", t |-> t],
           h_last_entry(heap, hinst[t]), last_entry(solo[t]), TRUE)

HLookUp ==
  \E t \in Callers, keys \in { << <<QA, Num(1)>> >> } :
    HApply(t, [name |-> "look_up", t |-> t, keys |-> keys],
           h_look_up(heap, hinst[t], keys), look_up(solo[t], keys), TRUE)

HNextEntry ==
  \E t \in Callers :
    HApply(t, [name |-> "next", t |-> t],
           h_next(heap, hinst[t]), next(solo[t]), TRUE)

HPreviousEntry ==
  \E t \in Callers :
    HApply(t, [name |-> "previous", t |-> t],
           h_previous(heap, hinst[t]), previous(solo[t]), TRUE)

HInsertBefore ==
  \E t \in Callers, value \in ArgVals :
    HApply(t, [name |-> "insert_before", t |-> t, value |-> value],
           h_insert_before(Load(heap, value).h, hinst[t], Load(heap, value).v),
           insert_before(solo[t], value), TRUE)

HInsertAfter ==
  \E t \in Callers, value \in ArgVals :
    HApply(t, [name |-> "insert_after", t |-> t, value |-> value],
           h_insert_after(Load(heap, value).h, hinst[t], Load(heap, value).v),
           insert_after(solo[t], value), TRUE)

HUpdate ==
  \E t \in Callers, value \in ArgVals :
    HApply(t, [name |-> "update", t |-> t, value |-> value],
           h_update(Load(heap, value).h, hinst[t], Load(heap, value).v),
           update(solo[t], value), TRUE)

HUp ==
  \E t \in Callers :
    HApply(t, [name |-> "up", t |-> t], h_up(heap, hinst[t]), up(solo[t]), TRUE)

HTop ==
  \E t \in Callers :
    HApply(t, [name |-> "top", t |-> t], h_top(heap, hinst[t]), top(solo[t]), TRUE)

HGoto ==
  \E t \in Callers, ii \in HeapPaths :
    HApply(t, [name |-> "goto", t |-> t, ii |-> ii],
           h_goto(heap, hinst[t], ii), goto(solo[t], ii), TRUE)

HPeek ==
  \E t \in Callers, ii \in HeapPaths :
    HApply(t, [name |-> "peek", t |-> t, ii |-> ii],
           h_peek(heap, hinst[t], ii), peek(solo[t], ii), FALSE)

NextHeap ==
  \/ HMember \/ HNewMember \/ HSibling
  \/ HEntry \/ HFirstEntry \/ HLastEntry \/ HLookUp
  \/ HNextEntry \/ HPreviousEntry \/ HInsertBefore \/ HInsertAfter
  \/ HUpdate \/ HUp \/ HTop \/ HGoto \/ HPeek

SpecHeap == InitHeap /\ [][NextHeap]_vars

(* ------------------------------ node-set ------------------------------- *)
(* A node as the node-set sees it: its path (the key it is deduplicated     *)
(* by), its value, its string form str(n) and is_internal().               *)
Node(path, value, s, internal) ==
  [path |-> path, value |-> value, str |-> s, internal |-> internal]
is_internal(n) == n.internal
str(n) == n.str

(* A NodeSet is a list of nodes; the tag tells it from a scalar, as         *)
(* isinstance(arg, NodeSet) does.                                          *)
NodeSet(nodes) == [k |-> "nodeset", nodes |-> nodes]

(* the number written by a string of decimal digits *)
RECURSIVE DigitsValue(_)
DigitsValue(s) ==
  IF s = <<>> THEN 0
  ELSE 10 * DigitsValue(SubSeq(s, 1, Len(s) - 1))
       + (CHOOSE d \in 0..9 :
            <<"0", "1", "2", "3", "4", "5", "6", "7", "8", "9">>[d + 1] = s[Len(s)])

(* float(v): a number is itself, True and False are 1.0 and 0.0, a str is  *)
(* parsed (ValueError unless it is a numeral; the strings used here are    *)
(* runs of digits or words), anything else is a TypeError.                 *)
PyFloat(v) ==
  CASE v.k = "num" -> Val(Num(v.n))
    [] v.k = "bool" -> Val(Num(IF v.b THEN 1 ELSE 0))
    [] v.k = "str" ->
         IF v.s # <<>> /\ \A i \in 1..Len(v.s) :
              v.s[i] \in {"0", "1", "2", "3", "4", "5", "6", "7", "8", "9"}
         THEN Val(Num(DigitsValue(v.s)))
         ELSE Fault("ValueError")
    [] OTHER -> Fault("TypeError")

(* d[n.path] = n written so that a key already present keeps its node.     *)
dict_put_first(d, n) ==
  IF \E i \in 1..Len(d) : d[i].path = n.path THEN d
  ELSE Append(d, n)

(* d[n.path] = n on an insertion-ordered dict, kept as the list of its     *)
(* values: a key already present keeps its position and takes the new      *)
(* node, a new key goes to the end.                                        *)
dict_put(d, n) ==
  IF \E i \in 1..Len(d) : d[i].path = n.path
  THEN [i \in 1..Len(d) |-> IF d[i].path = n.path THEN n ELSE d[i]]
  ELSE Append(d, n)

(* {n.path: n for n in nodes}.values() *)
RECURSIVE path_dict(_, _)
path_dict(d, nodes) ==
  IF nodes = <<>> THEN d
  ELSE path_dict(dict_put(d, Head(nodes)), Tail(nodes))

(* NodeSet.union *)
union(self, ns) == NodeSet(path_dict(<<>>, self.nodes \o ns.nodes))

(* NodeSet.__eq__ before decoration, written without the is_internal()     *)
(* test.                                                                   *)
RECURSIVE NodeSet_eq_noskip(_, _)
NodeSet_eq_noskip(nodes, val) ==
  IF nodes = <<>> THEN FALSE
  ELSE LET n == Head(nodes) IN
    IF val.k = "str"
    THEN IF str(n) = val.s THEN TRUE ELSE NodeSet_eq_noskip(Tail(nodes), val)
    ELSE IF n.value.k \in {"num", "bool"}
    THEN IF PyEq(PyFloat(n.value).val, val) THEN TRUE
         ELSE NodeSet_eq_noskip(Tail(nodes), val)
    ELSE IF PyEq(n.value, val) THEN TRUE
    ELSE NodeSet_eq_noskip(Tail(nodes), val)

(* NodeSet.__eq__ before decoration: the loop over the members with its    *)
(* early return.  isinstance(n.value, Number) holds of numbers and of      *)
(* bools.                                                                  *)
RECURSIVE NodeSet_eq(_, _)
NodeSet_eq(nodes, val) ==
  IF nodes = <<>> THEN FALSE
  ELSE LET n == Head(nodes) IN
    IF is_internal(n) THEN NodeSet_eq(Tail(nodes), val)
    ELSE IF val.k = "str"
    THEN IF str(n) = val.s THEN TRUE ELSE NodeSet_eq(Tail(nodes), val)
    ELSE IF n.value.k \in {"num", "bool"}
    THEN IF PyEq(PyFloat(n.value).val, val) THEN TRUE
         ELSE NodeSet_eq(Tail(nodes), val)
    ELSE IF PyEq(n.value, val) THEN TRUE
    ELSE NodeSet_eq(Tail(nodes), val)

(* NodeSet.__ne__ before decoration *)
RECURSIVE NodeSet_ne(_, _)
NodeSet_ne(nodes, val) ==
  IF nodes = <<>> THEN FALSE
  ELSE LET n == Head(nodes) IN
    IF is_internal(n) THEN NodeSet_ne(Tail(nodes), val)
    ELSE IF val.k = "str"
    THEN IF str(n) # val.s THEN TRUE ELSE NodeSet_ne(Tail(nodes), val)
    ELSE IF n.value.k \in {"num", "bool"}
    THEN IF ~PyEq(PyFloat(n.value).val, val) THEN TRUE
         ELSE NodeSet_ne(Tail(nodes), val)
    ELSE IF ~PyEq(n.value, val) THEN TRUE
    ELSE NodeSet_ne(Tail(nodes), val)

(* >, <, >=, <= on floats *)
PyOrd(rel, x, y) ==
  CASE rel = "__gt__" -> x > y
    [] rel = "__lt__" -> x < y
    [] rel = "__ge__" -> x >= y
    [] OTHER -> x <= y

(* the member loop of __gt__ / __lt__ / __ge__ / __le__ written so that a  *)
(* member that does not coerce ends the comparison.                        *)
RECURSIVE ord_scan_stop(_, _, _)
ord_scan_stop(rel, nodes, fv) ==
  IF nodes = <<>> THEN FALSE
  ELSE LET g == PyFloat(Head(nodes).value) IN
    IF g.exc # "none" THEN FALSE
    ELSE IF PyOrd(rel, g.val.n, fv) THEN TRUE
    ELSE ord_scan_stop(rel, Tail(nodes), fv)

(* the member loop of __gt__ / __lt__ / __ge__ / __le__: every member is   *)
(* tried, there is no is_internal() test; ValueError and TypeError of      *)
(* float(n.value) skip the member.                                         *)
RECURSIVE ord_scan(_, _, _)
ord_scan(rel, nodes, fv) ==
  IF nodes = <<>> THEN FALSE
  ELSE LET g == PyFloat(Head(nodes).value) IN
    IF g.exc # "none" THEN ord_scan(rel, Tail(nodes), fv)
    ELSE IF PyOrd(rel, g.val.n, fv) THEN TRUE
    ELSE ord_scan(rel, Tail(nodes), fv)

(* NodeSet.__gt__ / __lt__ / __ge__ / __le__ before decoration: float(val) *)
(* first, False if it raises ValueError or TypeError.                      *)
NodeSet_ord(rel, nodes, val) ==
  IF PyFloat(val).exc # "none" THEN FALSE
  ELSE ord_scan(rel, nodes, PyFloat(val).val.n)

(* the method under the decorator, by its name *)
meth(m, self, val) ==
  CASE m = "__eq__" -> NodeSet_eq(self.nodes, val)
    [] m = "__ne__" -> NodeSet_ne(self.nodes, val)
    [] OTHER -> NodeSet_ord(m, self.nodes, val)

(* comparison.wrap with a NodeSet argument, written without the            *)
(* is_internal() test on the members of the argument.                      *)
RECURSIVE comparison_scan_all(_, _, _)
comparison_scan_all(m, self, targets) ==
  IF targets = <<>> THEN FALSE
  ELSE IF meth(m, self, Str(str(Head(targets)))) THEN TRUE
  ELSE comparison_scan_all(m, self, Tail(targets))

(* comparison.wrap with a NodeSet argument: the method is tried on str(n)  *)
(* of every non-internal member n of the argument.                         *)
RECURSIVE comparison_scan(_, _, _)
comparison_scan(m, self, targets) ==
  IF targets = <<>> THEN FALSE
  ELSE IF is_internal(Head(targets)) THEN comparison_scan(m, self, Tail(targets))
  ELSE IF meth(m, self, Str(str(Head(targets)))) THEN TRUE
  ELSE comparison_scan(m, self, Tail(targets))

(* the comparison decorator applied to method m: self.m(arg) *)
comparison(m, self, arg) ==
  IF arg.k = "nodeset" THEN comparison_scan(m, self, arg.nodes)
  ELSE meth(m, self, arg)

(* Nodes on three paths: the numbers 2 and 5 and the word "abc", each as   *)
(* data and as an internal node.                                           *)
Nodes ==
  {Node(p, kd[1], kd[2], b) :
     p \in 1..3,
     kd \in {<<Num(2), <<"2">>>>, <<Num(5), <<"5">>>>,
             <<Str(<<"a", "b", "c">>), <<"a", "b", "c">>>>},
     b \in BOOLEAN}

(* node-sets of at most MaxNodes nodes with pairwise distinct paths *)
NodeSets ==
  {NodeSet(s) : s \in {s \in SeqsUpTo(Nodes, MaxNodes) :
     \A i, j \in 1..Len(s) : s[i].path = s[j].path => i = j}}
SingleSets == {ns \in NodeSets : Len(ns.nodes) <= 1}

(* scalar targets: str, float and bool *)
Scalars ==
  {Str(<<"2">>), Str(<<"3">>), Str(<<"a", "b", "c">>),
   Num(2), Num(3), Num(5), Bool(TRUE)}

InitNodeSet ==
  /\ nset \in NodeSets
  /\ root = Null
  /\ inst = Instance(root, <<>>)
  /\ prev = inst
  /\ op = [name |-> "init"]
  /\ res = Ok(inst)
  /\ steps = 0
  /\ pure = TRUE
  /\ heap = <<>> /\ hprev = <<>> /\ hinst = <<>> /\ solo = <<>>
  /\ sres = res

(* The caller evaluates one expression o on the node-set (steps = 0: it   *)
(* has evaluated none yet); r is its value.                                *)
SetApply(o, r) ==
  /\ steps' = 1
  /\ op' = o
  /\ res' = r
  /\ UNCHANGED <<root, inst, prev, pure, heap, hprev, hinst, solo, sres, nset>>

Union ==
  /\ steps = 0
  /\ \E ns \in NodeSets :
       SetApply([name |-> "union", arg |-> ns], Val(union(nset, ns)))

Equals ==
  /\ steps = 0
  /\ \E arg \in Scalars \cup NodeSets :
       SetApply([name |-> "__eq__", arg |-> arg],
                Val(Bool(comparison("__eq__", nset, arg))))

NotEquals ==
  /\ steps = 0
  /\ \E arg \in Scalars \cup SingleSets :
       SetApply([name |-> "__ne__", arg |-> arg],
                Val(Bool(comparison("__ne__", nset, arg))))

GreaterThan ==
  /\ steps = 0
  /\ \E arg \in Scalars \cup SingleSets :
       SetApply([name |-> "__gt__", arg |-> arg],
                Val(Bool(comparison("__gt__", nset, arg))))

LessThan ==
  /\ steps = 0
  /\ \E arg \in Scalars \cup SingleSets :
       SetApply([name |-> "__lt__", arg |-> arg],
                Val(Bool(comparison("__lt__", nset, arg))))

GreaterOrEqual ==
  /\ steps = 0
  /\ \E arg \in Scalars \cup SingleSets :
       SetApply([name |-> "__ge__", arg |-> arg],
                Val(Bool(comparison("__ge__", nset, arg))))

LessOrEqual ==
  /\ steps = 0
  /\ \E arg \in Scalars \cup SingleSets :
       SetApply([name |-> "__le__", arg |-> arg],
                Val(Bool(comparison("__le__", nset, arg))))

NextNodeSet ==
  \/ Union \/ Equals \/ NotEquals
  \/ GreaterThan \/ LessThan \/ GreaterOrEqual \/ LessOrEqual

SpecNodeSet == InitNodeSet /\ [][NextNodeSet]_vars

(* ------------------------------ claims --------------------------------- *)

(* C1: from a root Instance, after any sequence of successful navigation   *)
(* operations (member, entry with 0 <= index < length, first_entry,        *)
(* last_entry, look_up, sibling, next, previous, up), top returns an       *)
(* Instance with an empty trace whose value equals the root's value.       *)
C1_TopReconstructsRoot ==
  pure => top(inst) = Ok(Instance(root, <<>>))

(* member("a"), entry(1), next on {"a": [10, 20, 30]}: two crumbs deep, on *)
(* the last entry, and top gives back the document.                        *)
C1_Witness ==
  /\ pure /\ steps = 3 /\ op.name = "next" /\ IsInst(res)
  /\ Len(inst.trace) = 2 /\ inst.value = Num(30)
  /\ top(inst).inst.value = Obj(Pair(QA, Arr(<<Num(10), Num(20), Num(30)>>)))

(* The selector of a crumb: member(name) or entry(len(before)).            *)
Renavigate(parent, cr) ==
  IF cr.k = "member" THEN member(parent, cr.name)
  ELSE entry(parent, Len(cr.before))

(* C2: for any Instance with a non-empty trace, however reached, up        *)
(* followed by the selector of its last crumb gives an Instance with the   *)
(* same value and an equal last crumb.                                     *)
C2_RoundTrip ==
  HasCrumb(inst) =>
    /\ IsInst(up(inst))
    /\ IsInst(Renavigate(up(inst).inst, crumb(inst)))
    /\ Renavigate(up(inst).inst, crumb(inst)).inst.value = inst.value
    /\ crumb(Renavigate(up(inst).inst, crumb(inst)).inst) = crumb(inst)

(* C3: for an Array focus a, whenever entry(index) returns an Instance its *)
(* crumb satisfies before ++ [focus] ++ after = a with the focus at        *)
(* position len(before); every index outside 0..len(a)-1 fails with        *)
(* NonexistentInstance.                                                    *)
C3_EntrySplit ==
  (op.name = "entry" /\ prev.value.k = "arr") =>
    /\ IsInst(res) =>
         /\ crumb(res.inst).before \o <<res.inst.value>> \o crumb(res.inst).after
              = prev.value.a
         /\ Len(crumb(res.inst).before) < Len(prev.value.a)
         /\ prev.value.a[Len(crumb(res.inst).before) + 1] = res.inst.value
    /\ (op.index < 0 \/ op.index >= Len(prev.value.a)) =>
         res = Raise("NonexistentInstance", prev)

(* Decimal digits of a natural number.                                     *)
RECURSIVE Decimal(_)
Decimal(n) ==
  LET d == <<"0", "1", "2", "3", "4", "5", "6", "7", "8", "9">>
  IN IF n < 10 THEN <<d[n + 1]>> ELSE Decimal(n \div 10) \o <<d[(n % 10) + 1]>>

(* "/" followed by the fragments joined by "/": names verbatim, indices in *)
(* decimal.                                                                *)
Rfc6901(trace) ==
  <<"/">> \o PyJoin(<<"/">>,
     [i \in 1..Len(trace) |->
        IF trace[i].k = "member" THEN trace[i].name
        ELSE Decimal(Len(trace[i].before))])

(* C4: pointer() returns "/" followed by the crumbs' fragments in trace    *)
(* order joined by "/", a member name verbatim and an entry index in       *)
(* decimal; member("a") then entry(2) gives "/a/2".                        *)
C4_Pointer ==
  op.name = "pointer" => res = Val(Str(Rfc6901(prev.trace)))

(* C6: sibling, next, previous, insert_before and insert_after fail with   *)
(* InstanceTypeError whenever the last crumb is not of the kind they need  *)
(* (MemberCrumb for sibling, EntryCrumb for the others), an empty trace    *)
(* included; NonexistentInstance only for a missing sibling name or an     *)
(* array boundary; nothing else escapes.                                   *)
C6_CrumbKindErrors ==
  op.name \in {"sibling", "next", "previous", "insert_before", "insert_after"} =>
    LET need == IF op.name = "sibling" THEN "member" ELSE "entry"
        wrong == ~HasCrumb(prev) \/ crumb(prev).k # need
    IN /\ wrong => res = Raise("InstanceTypeError", prev)
       /\ res.exc \in {"none", "InstanceTypeError", "NonexistentInstance"}
       /\ res.exc = "NonexistentInstance" =>
            /\ ~wrong
            /\ CASE op.name = "sibling" ->
                      /\ crumb(prev).object.k = "obj"
                      /\ op.arg \notin DOMAIN crumb(prev).object.o
                 [] op.name = "next" -> crumb(prev).after = <<>>
                 [] op.name = "previous" -> crumb(prev).before = <<>>
                 [] OTHER -> FALSE

(* C7: member(name) fails with InstanceTypeError on every focus that is    *)
(* not an Object, with NonexistentInstance on an Object without the key,   *)
(* and otherwise returns the member's value under a MemberCrumb holding    *)
(* the name and the object without that member.                            *)
C7_MemberErrors ==
  op.name = "member" =>
    CASE prev.value.k # "obj" -> res = Raise("InstanceTypeError", prev)
      [] prev.value.k = "obj" /\ op.arg \notin DOMAIN prev.value.o ->
           res = Raise("NonexistentInstance", prev)
      [] OTHER ->
           res = Ok(Instance(prev.value.o[op.arg],
                   prev.trace \o <<MemberCrumb(op.arg,
                      Obj(Restrict(prev.value.o, DOMAIN prev.value.o \ {op.arg})))>>))

(* C8: peek(path) never fails, and once a step of the fold has yielded "no *)
(* value" the result of the whole peek is "no value".                      *)
C8_PeekNeverFails ==
  op.name = "peek" =>
    /\ res.exc = "none"
    /\ (\E j \in 1..Len(op.ii) :
          PeekFold(prev.value, SubSeq(op.ii, 1, j)) = Val(Null))
         => res = Val(Null)

(* An entry matches keys: it has the given value on every given key.      *)
KeysMatch(en, keys) ==
  /\ en.k = "obj"
  /\ \A j \in 1..Len(keys) :
       keys[j][1] \in DOMAIN en.o /\ en.o[keys[j][1]] = keys[j][2]

(* C9 as stated: on an Array of Objects look_up(keys) returns entry(i) for *)
(* the lowest index i whose element matches whenever one exists, whatever  *)
(* the elements before it contain, and fails with NonexistentInstance      *)
(* exactly when none matches; it fails with InstanceTypeError when the     *)
(* focus is not an Array of Objects.                                       *)
C9_Original ==
  op.name = "look_up" =>
    IF prev.value.k # "arr" \/ \E i \in 1..Len(prev.value.a) : prev.value.a[i].k # "obj"
    THEN res = Raise("InstanceTypeError", prev)
    ELSE LET a == prev.value.a
             hits == {i \in 1..Len(a) : KeysMatch(a[i], op.keys)}
         IN IF hits = {} THEN res = Raise("NonexistentInstance", prev)
            ELSE res = entry(prev, (CHOOSE i \in hits : \A j \in hits : i <= j) - 1)

(* What testing the keys in order does on one entry: "match" when every    *)
(* key is present with an == value, else what the first failing test does: *)
(* "TypeError" (entry is not an Object), "KeyError" (key absent) or        *)
(* "differ".                                                               *)
KeyTest(en, keys) ==
  LET bad == {j \in 1..Len(keys) :
                \/ en.k # "obj"
                \/ keys[j][1] \notin DOMAIN en.o
                \/ ~PyEq(en.o[keys[j][1]], keys[j][2])}
  IN IF bad = {} THEN "match"
     ELSE LET j == CHOOSE x \in bad : \A y \in bad : x <= y
          IN IF en.k # "obj" THEN "TypeError"
             ELSE IF keys[j][1] \notin DOMAIN en.o THEN "KeyError"
             ELSE "differ"

(* C9 amended: look_up(keys) fails with InstanceTypeError when the focus   *)
(* is not an Array; otherwise it stops at the first entry that does not    *)
(* merely differ on a key: a matching entry gives its entry(i) context, an *)
(* entry lacking a key under test gives NonexistentInstance, an entry that *)
(* is not an Object gives InstanceTypeError; with no such entry the        *)
(* result is NonexistentInstance.  So when every entry is an Object that   *)
(* has every given key, the lowest matching entry is returned and          *)
(* NonexistentInstance is raised exactly when none matches.                *)
C9_LookUpScan ==
  op.name = "look_up" =>
    IF prev.value.k # "arr" THEN res = Raise("InstanceTypeError", prev)
    ELSE LET a == prev.value.a
             stops == {i \in 1..Len(a) : KeyTest(a[i], op.keys) # "differ"}
         IN IF stops = {} THEN res = Raise("NonexistentInstance", prev)
            ELSE LET s == CHOOSE i \in stops : \A j \in stops : i <= j IN
              CASE KeyTest(a[s], op.keys) = "match" ->
                     res = Ok(Instance(a[s], prev.trace \o
                             <<EntryCrumb(SubSeq(a, 1, s - 1), SubSeq(a, s + 1, Len(a)))>>))
                [] KeyTest(a[s], op.keys) = "KeyError" ->
                     res = Raise("NonexistentInstance", prev)
                [] OTHER -> res = Raise("InstanceTypeError", prev)

(* look_up({"a": 2, "b": 3}) on an array whose entries 1 and 2 both match: *)
(* the lower one is returned.                                              *)
C9_Witness ==
  /\ op.name = "look_up" /\ IsInst(res) /\ Len(op.keys) = 2
  /\ Len(crumb(res.inst).before) = 1 /\ Len(crumb(res.inst).after) = 1
  /\ KeysMatch(crumb(res.inst).after[1], op.keys)
  /\ ~KeysMatch(crumb(res.inst).before[1], op.keys)

(* C10 as stated: on an Object focus without name x,                      *)
(* new_member(x, v).member(x).value = v; on one that has x, new_member     *)
(* fails with DuplicateMember.                                             *)
C10_Original ==
  (op.name = "new_member" /\ prev.value.k = "obj") =>
    IF op.arg \in DOMAIN prev.value.o
    THEN res = Raise("DuplicateMember", prev)
    ELSE /\ IsInst(res)
         /\ IsInst(member(res.inst, op.arg))
         /\ member(res.inst, op.arg).inst.value = op.value

(* C10 amended: on an Object focus without name x, new_member(x, v) has    *)
(* value v and new_member(x, v).up.member(x).value = v; on one that has x, *)
(* new_member fails with DuplicateMember.                                  *)
C10_NewMemberUpMember ==
  (op.name = "new_member" /\ prev.value.k = "obj") =>
    IF op.arg \in DOMAIN prev.value.o
    THEN res = Raise("DuplicateMember", prev)
    ELSE /\ IsInst(res)
         /\ res.inst.value = op.value
         /\ IsInst(up(res.inst))
         /\ IsInst(member(up(res.inst).inst, op.arg))
         /\ member(up(res.inst).inst, op.arg).inst.value = op.value

(* new_member on a non-empty Object that lacks the name.                   *)
C10_Witness ==
  /\ op.name = "new_member" /\ prev.value.k = "obj" /\ IsInst(res)
  /\ DOMAIN prev.value.o # {} /\ op.arg \notin DOMAIN prev.value.o
  /\ member(up(res.inst).inst, op.arg).inst.value = op.value

C11_InsertAdjacent ==
  (op.name \in {"insert_before", "insert_after"} /\ IsInst(res)) =>
    LET a == up(prev).inst.value.a
        k == Len(crumb(prev).before)
        r == up(res.inst).inst.value
        p == IF op.name = "insert_before" THEN k ELSE k + 1
    IN /\ entry(up(prev).inst, k) = Ok(prev)
       /\ res.inst.value = op.value
       /\ r.k = "arr" /\ Len(r.a) = Len(a) + 1
       /\ r.a[p + 1] = op.value
       /\ IF op.name = "insert_before" THEN r.a[p + 2] = a[k + 1]
          ELSE r.a[p] = a[k + 1]
       /\ [i \in 1..Len(a) |-> r.a[IF i <= p THEN i ELSE i + 1]] = a

(* entry(1) of a three-entry array, then insert_before: the array above    *)
(* the new focus has four entries.                                         *)
C11_Witness ==
  /\ op.name = "insert_before" /\ IsInst(res)
  /\ Len(crumb(prev).before) = 1 /\ Len(crumb(prev).after) = 1
  /\ Len(up(res.inst).inst.value.a) = 4
  /\ up(res.inst).inst.value.a[2] = op.value
  /\ up(res.inst).inst.value.a[3] = prev.value

(* next applied j times *)
RECURSIVE NextTimes(_, _)
NextTimes(i, j) == IF j = 0 THEN i ELSE NextTimes(next(i).inst, j - 1)
RECURSIVE PreviousTimes(_, _)
PreviousTimes(i, j) == IF j = 0 THEN i ELSE PreviousTimes(previous(i).inst, j - 1)

(* C12: on an Array focus of length n >= 1, first_entry followed by        *)
(* repeated next visits the entries 0, 1, ..., n-1 in order (focus a[j]    *)
(* and len(before) = j at step j) and the next after n-1 fails with        *)
(* NonexistentInstance; last_entry followed by repeated previous visits    *)
(* n-1, ..., 0 and then fails with NonexistentInstance; first_entry and    *)
(* last_entry on [] fail with NonexistentInstance.  The second half says   *)
(* the same of the call just made.                                         *)
C12_Traversal ==
  /\ inst.value.k = "arr" =>
       LET a == inst.value.a
           n == Len(inst.value.a)
       IN IF n = 0
          THEN /\ first_entry(inst) = Raise("NonexistentInstance", inst)
               /\ last_entry(inst) = Raise("NonexistentInstance", inst)
          ELSE /\ IsInst(first_entry(inst)) /\ IsInst(last_entry(inst))
               /\ \A j \in 0..(n - 1) :
                    LET f == NextTimes(first_entry(inst).inst, j)
                        b == PreviousTimes(last_entry(inst).inst, j)
                    IN /\ f.value = a[j + 1]
                       /\ crumb(f).k = "entry" /\ Len(crumb(f).before) = j
                       /\ Len(f.trace) = Len(inst.trace) + 1
                       /\ IsInst(next(f)) <=> j < n - 1
                       /\ j = n - 1 => next(f) = Raise("NonexistentInstance", f)
                       /\ b.value = a[n - j]
                       /\ crumb(b).k = "entry" /\ Len(crumb(b).before) = n - 1 - j
                       /\ IsInst(previous(b)) <=> j < n - 1
                       /\ j = n - 1 => previous(b) = Raise("NonexistentInstance", b)
  /\ (op.name = "next" /\ HasCrumb(prev) /\ crumb(prev).k = "entry") =>
       IF crumb(prev).after = <<>> THEN res = Raise("NonexistentInstance", prev)
       ELSE /\ IsInst(res)
            /\ res.inst.value = crumb(prev).after[1]
            /\ Len(crumb(res.inst).before) = Len(crumb(prev).before) + 1
            /\ zip(crumb(res.inst), res.inst.value) = zip(crumb(prev), prev.value)
  /\ (op.name = "previous" /\ HasCrumb(prev) /\ crumb(prev).k = "entry") =>
       IF crumb(prev).before = <<>> THEN res = Raise("NonexistentInstance", prev)
       ELSE /\ IsInst(res)
            /\ res.inst.value = crumb(prev).before[Len(crumb(prev).before)]
            /\ Len(crumb(res.inst).before) = Len(crumb(prev).before) - 1
            /\ zip(crumb(res.inst), res.inst.value) = zip(crumb(prev), prev.value)

(* first_entry, next, next on [10, 20, 30] (inside {"a": ...} or not) and  *)
(* then the next that fails on the last entry.                             *)
C12_Witness ==
  /\ op.name = "next" /\ res = Raise("NonexistentInstance", prev)
  /\ HasCrumb(prev) /\ crumb(prev).k = "entry"
  /\ Len(crumb(prev).before) = 2 /\ crumb(prev).after = <<>>
  /\ pure /\ steps = 3

(* the MemberCrumbs of a trace whose name has a ":" *)
Prefixed(trace) ==
  {i \in 1..Len(trace) :
     trace[i].k = "member" /\ \E j \in 1..Len(trace[i].name) : trace[i].name[j] = ":"}

(* the text of a name before its first ":" *)
PrefixOf(name) ==
  LET j == CHOOSE j \in 1..Len(name) :
             name[j] = ":" /\ \A l \in 1..(j - 1) : name[l] # ":"
  IN SubSeq(name, 1, j - 1)

(* C18 as stated: namespace is decided by the innermost MemberCrumb only,  *)
(* its prefix if its name has one, no value if it has none or if the       *)
(* trace has no MemberCrumb; EntryCrumbs are skipped.                      *)
C18_Original ==
  op.name = "namespace" =>
    LET ms == {i \in 1..Len(prev.trace) : prev.trace[i].k = "member"}
    IN IF ms = {} THEN res = Val(Null)
       ELSE LET m == CHOOSE m \in ms : \A l \in ms : l <= m
            IN IF m \in Prefixed(prev.trace)
               THEN res = Val(Str(PrefixOf(prev.trace[m].name)))
               ELSE res = Val(Null)

(* C18: namespace is the prefix (the text before the first ":") of the     *)
(* innermost MemberCrumb whose name has a prefix; MemberCrumbs with an     *)
(* unprefixed name and EntryCrumbs are skipped; it has no value when no    *)
(* MemberCrumb of the trace has a prefixed name.                           *)
C18_NamespaceInherited ==
  op.name = "namespace" =>
    /\ inst = prev
    /\ IF Prefixed(prev.trace) = {} THEN res = Val(Null)
       ELSE LET m == CHOOSE m \in Prefixed(prev.trace) :
                       \A l \in Prefixed(prev.trace) : l <= m
            IN res = Val(Str(PrefixOf(prev.trace[m].name)))

(* namespace of the member "a" inside the member "p:c": the innermost      *)
(* MemberCrumb has no prefix, the one outside it has.                      *)
C18_Witness ==
  /\ op.name = "namespace" /\ res = Val(Str(<<"p">>))
  /\ Len(prev.trace) = 2
  /\ prev.trace[2].k = "member" /\ prev.trace[2].name = QA
  /\ prev.trace[1].k = "member" /\ prev.trace[1].name = QPC

(* C20: next and previous are mutually inverse where both apply: after a   *)
(* successful next, previous gives back the receiver (value, before,       *)
(* after and outer trace), and after a successful previous, next does;     *)
(* after a successful sibling(b) from the member a of an object,           *)
(* sibling(a) gives back the receiver (value and crumb object).            *)
C20_Inverses ==
  /\ (op.name = "next" /\ IsInst(res)) =>
       /\ crumb(prev).after # <<>>
       /\ previous(res.inst) = Ok(prev)
  /\ (op.name = "previous" /\ IsInst(res)) =>
       /\ crumb(prev).before # <<>>
       /\ next(res.inst) = Ok(prev)
  /\ (HasCrumb(inst) /\ crumb(inst).k = "entry") =>
       /\ crumb(inst).after # <<>> => previous(next(inst).inst) = Ok(inst)
       /\ crumb(inst).before # <<>> => next(previous(inst).inst) = Ok(inst)
  /\ (op.name = "sibling" /\ IsInst(res)) =>
       /\ sibling(res.inst, crumb(prev).name) = Ok(prev)
       /\ crumb(res.inst).name = op.arg

(* a successful next from an entry with something before and after it,     *)
(* undone by previous.                                                     *)
C20_Witness ==
  /\ op.name = "next" /\ IsInst(res)
  /\ crumb(prev).before # <<>> /\ crumb(res.inst).after # <<>>
  /\ previous(inst) = Ok(prev)
  /\ next(previous(inst).inst) = Ok(inst)

(* C19: whenever goto(path) succeeds, peek(path) on the same receiver      *)
(* equals the value of the Instance goto returned; when goto fails at some *)
(* step, the error carries the intermediate Instance on which that step    *)
(* was attempted, and the receiver is unchanged.                           *)
C19_GotoPeekAgree ==
  op.name = "goto" =>
    IF IsInst(res) THEN peek(prev, op.ii) = Val(res.inst.value)
    ELSE /\ inst = prev
         /\ \E j \in 0..(Len(op.ii) - 1) :
              LET mid == goto(prev, SubSeq(op.ii, 1, j))
              IN /\ IsInst(mid)
                 /\ ~IsInst(goto_step(op.ii[j + 1], mid.inst))
                 /\ "inst" \in DOMAIN res
                 /\ res.inst = mid.inst

(* the position of the first node with path p in a list of nodes *)
FirstAt(nodes, p) ==
  CHOOSE i \in 1..Len(nodes) :
    nodes[i].path = p /\ \A j \in 1..(i - 1) : nodes[j].path # p

PathsOf(nodes) == {nodes[i].path : i \in 1..Len(nodes)}

(* C13: for node-sets A and B, each with pairwise distinct paths,          *)
(* A.union(B) has exactly one node per distinct path of A or B; for a path *)
(* in both, the node kept is B's; the enumeration order is the order of    *)
(* first occurrence of each path in A followed by B.                       *)
C13_Union ==
  op.name = "union" =>
    LET A == nset.nodes
        B == op.arg.nodes
        U == res.val.nodes
    IN /\ res.val.k = "nodeset"
       /\ PathsOf(U) = PathsOf(A) \cup PathsOf(B)
       /\ \A i, j \in 1..Len(U) : U[i].path = U[j].path => i = j
       /\ \A i \in 1..Len(U) :
            IF U[i].path \in PathsOf(B) THEN U[i] = B[FirstAt(B, U[i].path)]
            ELSE U[i] = A[FirstAt(A, U[i].path)]
       /\ \A i, j \in 1..Len(U) :
            i < j => FirstAt(A \o B, U[i].path) < FirstAt(A \o B, U[j].path)

(* A and B have two nodes each and share the path of A's first node with a *)
(* different node: the union has three nodes, B's node in first place.     *)
C13_Witness ==
  /\ op.name = "union"
  /\ Len(nset.nodes) = 2 /\ Len(op.arg.nodes) = 2
  /\ Len(res.val.nodes) = 3
  /\ op.arg.nodes[2].path = nset.nodes[1].path
  /\ op.arg.nodes[2] # nset.nodes[1]
  /\ res.val.nodes[1] = op.arg.nodes[2]
  /\ res.val.nodes[3] = op.arg.nodes[1]

NotInternal(n) == ~is_internal(n)
Comparisons == {"__eq__", "__ne__", "__gt__", "__lt__", "__ge__", "__le__"}

(* C14: all six comparisons of a node-set against a scalar ignore its      *)
(* internal members (the result is that of the set without them), and a    *)
(* set whose members are all internal compares false against any scalar    *)
(* under every operator.                                                   *)
C14_InternalIgnored ==
  (op.name \in Comparisons /\ op.arg.k # "nodeset") =>
    /\ res = Val(Bool(comparison(op.name,
                 NodeSet(SelectSeq(nset.nodes, NotInternal)), op.arg)))
    /\ (\A i \in 1..Len(nset.nodes) : is_internal(nset.nodes[i]))
         => res = Val(Bool(FALSE))

(* the number a numeric value or target stands for *)
NumberOf(v) == IF v.k = "bool" THEN (IF v.b THEN 1 ELSE 0) ELSE v.n

(* member n matches the scalar val *)
Matches(n, val) ==
  IF val.k = "str" THEN str(n) = val.s
  ELSE IF n.value.k \in {"num", "bool"} THEN NumberOf(n.value) = NumberOf(val)
  ELSE n.value = val

(* C15: equals(scalar) is true iff some non-internal member matches the    *)
(* target (by string form when the target is a string, by numeric          *)
(* comparison when it is not and the member's value is numeric, by direct  *)
(* equality otherwise); notEquals(scalar) is true iff some non-internal    *)
(* member differs from it; so both are false on the empty set.             *)
C15_EqualsScalar ==
  /\ (op.name = "__eq__" /\ op.arg.k # "nodeset") =>
       res = Val(Bool(\E i \in 1..Len(nset.nodes) :
                 ~is_internal(nset.nodes[i]) /\ Matches(nset.nodes[i], op.arg)))
  /\ (op.name = "__ne__" /\ op.arg.k # "nodeset") =>
       res = Val(Bool(\E i \in 1..Len(nset.nodes) :
                 ~is_internal(nset.nodes[i]) /\ ~Matches(nset.nodes[i], op.arg)))
  /\ (op.name \in {"__eq__", "__ne__"} /\ nset.nodes = <<>> /\ op.arg.k # "nodeset") =>
       res = Val(Bool(FALSE))

(* the set with string forms {"5", "2"} equals "2": the first member does  *)
(* not match, the second does.                                             *)
C15_Witness ==
  /\ op.name = "__eq__" /\ op.arg = Str(<<"2">>)
  /\ Len(nset.nodes) = 2
  /\ str(nset.nodes[1]) = <<"5">> /\ ~is_internal(nset.nodes[1])
  /\ str(nset.nodes[2]) = <<"2">> /\ ~is_internal(nset.nodes[2])
  /\ res = Val(Bool(TRUE))

(* C16: equals(target) with a node-set target is true iff some             *)
(* non-internal member of the receiver and some non-internal member of the *)
(* target have equal string forms; it is symmetric in receiver and target  *)
(* and false when either has no non-internal member.                       *)
C16_EqualsNodeSet ==
  (op.name = "__eq__" /\ op.arg.k = "nodeset") =>
    /\ res = Val(Bool(\E i \in 1..Len(nset.nodes), j \in 1..Len(op.arg.nodes) :
                 /\ ~is_internal(nset.nodes[i])
                 /\ ~is_internal(op.arg.nodes[j])
                 /\ str(nset.nodes[i]) = str(op.arg.nodes[j])))
    /\ Val(Bool(comparison("__eq__", op.arg, nset))) = res
    /\ ((\A i \in 1..Len(nset.nodes) : is_internal(nset.nodes[i]))
        \/ (\A j \in 1..Len(op.arg.nodes) : is_internal(op.arg.nodes[j])))
         => res = Val(Bool(FALSE))

(* receiver and target of two nodes each; only the second member of the    *)
(* receiver and the second of the target have the same string form.        *)
C16_Witness ==
  /\ op.name = "__eq__" /\ op.arg.k = "nodeset"
  /\ Len(nset.nodes) = 2 /\ Len(op.arg.nodes) = 2
  /\ \A i \in 1..2 : ~is_internal(nset.nodes[i]) /\ ~is_internal(op.arg.nodes[i])
  /\ str(nset.nodes[1]) # str(op.arg.nodes[1])
  /\ str(nset.nodes[1]) # str(op.arg.nodes[2])
  /\ str(nset.nodes[2]) # str(op.arg.nodes[1])
  /\ str(nset.nodes[2]) = str(op.arg.nodes[2])
  /\ res = Val(Bool(TRUE))

(* C17: an ordering comparison against a scalar is false, without failing, *)
(* when the target does not coerce to a number; members whose value does   *)
(* not coerce are skipped; otherwise it is true iff some remaining member  *)
(* satisfies the ordering against the coerced target.                      *)
C17_OrderingScalar ==
  (op.name \in {"__gt__", "__lt__", "__ge__", "__le__"} /\ op.arg.k # "nodeset") =>
    /\ res.exc = "none"
    /\ IF PyFloat(op.arg).exc # "none" THEN res = Val(Bool(FALSE))
       ELSE res = Val(Bool(\E i \in 1..Len(nset.nodes) :
                   /\ PyFloat(nset.nodes[i].value).exc = "none"
                   /\ PyOrd(op.name, PyFloat(nset.nodes[i].value).val.n,
                            PyFloat(op.arg).val.n)))

(* {"abc", 5} > "3": the first member does not coerce and is skipped, the  *)
(* second is greater.                                                      *)
C17_Witness ==
  /\ op.name = "__gt__" /\ op.arg = Str(<<"3">>)
  /\ Len(nset.nodes) = 2
  /\ nset.nodes[1].value = Str(<<"a", "b", "c">>)
  /\ nset.nodes[2].value = Num(5)
  /\ res = Val(Bool(TRUE))

====
